---- MODULE Spec2Model ----
(***************************************************************************)
(* Model of Ctrax_zebrafish_tracking.py: the track assembler (combine_df), *)
(* the per-frame classifiers and motion functions, the per-minute          *)
(* aggregator (min_by_min_top_bottom_analysis) and the batch driver        *)
(* (analyze_file).                                                         *)
(*                                                                         *)
(* Numbers.  The program computes in Python 2 with numpy float64 values    *)
(* read from CSV and from the ROI polygon.  Coordinates are drawn here     *)
(* from integers and every quotient is kept as an exact fraction           *)
(* <<numerator, denominator>>, so comparisons such as y >= half are the    *)
(* comparisons of the real numbers the floats stand for.  Python-2         *)
(* int/int quotients (len(df.index) / trial_length, frames_per_min / 60)   *)
(* are floor divisions and are modelled by \div.  A distance is a square   *)
(* root; the model carries the radicand, compares by squaring, and takes   *)
(* the root itself only where it is a whole number.                        *)
(***************************************************************************)
EXTENDS Integers, Sequences, FiniteSets, TLC

VARIABLES
    pc,            \* position of the running function
    table,         \* combine_df: the raw per-frame table (rows of 6-column groups)
    frame,         \* combine_df: index of the next row of df.index to visit
    coordinates,   \* combine_df: the trajectory built so far
    args,          \* arguments of the function being run
    ret,           \* value returned by the last per-frame function
    pix_con,       \* aggregator local: conversion factor, or Unbound
    frames_per_min,\* aggregator local: frames_per_min (time), fpm (fps)
    frames_per_bin,\* aggregator local
    frame_index,   \* aggregator local: frame_index (time), time_intervals (fps)
    t,             \* aggregator local: index of the next bucket
    df_out,        \* aggregator local: the columns filled so far
    scanned,       \* per bucket, the frame indices the scan visited
    files,         \* analyze_file: the trials of the batch
    fileIdx,       \* analyze_file: index of the next trial
    output_file,   \* the output file: whether it is open, and what was appended
    cfg,           \* analyze_file: its arguments
    error          \* the exception that ended the run, or "none"

vars == <<pc, table, frame, coordinates, args, ret, pix_con, frames_per_min,
          frames_per_bin, frame_index, t, df_out, scanned, files, fileIdx, output_file, cfg,
          error>>

None == "None"

----------------------------------------------------------------------------
(* Exact fractions standing for the program's floats.                      *)

Abs(n) == IF n < 0 THEN -n ELSE n

RECURSIVE GCD(_, _)
GCD(a, b) == IF b = 0 THEN a ELSE GCD(b, a % b)

\* n/d in lowest terms with a positive denominator (d # 0)
Rat(n, d) ==
    LET g == GCD(Abs(n), Abs(d))
        s == IF d < 0 THEN -1 ELSE 1
    IN  <<(s * n) \div g, (s * d) \div g>>

RInt(n) == <<n, 1>>
RAdd(a, b) == Rat(a[1] * b[2] + b[1] * a[2], a[2] * b[2])
RSub(a, b) == Rat(a[1] * b[2] - b[1] * a[2], a[2] * b[2])
RMul(a, b) == Rat(a[1] * b[1], a[2] * b[2])
RDiv(a, b) == Rat(a[1] * b[2], a[2] * b[1])
RLt(a, b)  == a[1] * b[2] < b[1] * a[2]
RLe(a, b)  == a[1] * b[2] <= b[1] * a[2]
RGe(a, b)  == RLe(b, a)
RIsZero(a) == a[1] = 0

\* Python's int(): truncation toward zero
PyInt(a) == IF a[1] >= 0 THEN a[1] \div a[2] ELSE -((-a[1]) \div a[2])

\* np.sqrt on a radicand that is a perfect square; the trajectories below
\* are drawn so that every single-frame step has a whole-number length
Sqrt(n) == CHOOSE r \in 0..n : r * r = n

----------------------------------------------------------------------------
(* Track assembler: combine_df                                             *)

MaxGroups == 2   \* 6-column groups per row
MaxRows == 2     \* rows of the raw table
GroupWidth == 6

IdValues == {-1, 0, 1}

\* Column c of a row (columns are 0-based in the program)
Cell(row, c) == row[c + 1]

\* One pass of the inner loop over range(0, len(df.columns), 6): the (x, y)
\* pairs of the groups with id >= 0, in column order.
RECURSIVE ValidPairs(_, _, _)
ValidPairs(row, ids, ncols) ==
    IF ids >= ncols THEN <<>>
    ELSE (IF Cell(row, ids) >= 0
          THEN <<  <<Cell(row, ids + 1), Cell(row, ids + 2)>>  >>
          ELSE <<>>) \o ValidPairs(row, ids + GroupWidth, ncols)

\* The index of x_temp / y_temp that is kept: [-1], the last one
KeptFirst(temp) == 1
KeptIndex(temp) == Len(temp)

\* What one iteration of the frame loop appends to coordinates
FrameEntry(row) ==
    LET temp == ValidPairs(row, 0, Len(row))
    IN  IF Len(temp) > 0 THEN <<temp[KeptIndex(temp)]>> ELSE <<>>

RECURSIVE combine_df(_)
combine_df(tbl) ==
    IF tbl = <<>> THEN <<>>
    ELSE FrameEntry(Head(tbl)) \o combine_df(Tail(tbl))

\* Row r (1-based) of a table whose id fields are ids[r][g]: every cell gets
\* coordinates that name its row and group, so an entry of the output tells
\* which cell it was copied from.
CellX(r, g) == 10 * r + g
CellY(r, g) == 100 + 10 * r + g

RECURSIVE RowOf(_, _, _, _)
RowOf(idrow, r, g, ng) ==
    IF g > ng THEN <<>>
    ELSE <<idrow[g], CellX(r, g), CellY(r, g), 0, 0, 0>> \o RowOf(idrow, r, g + 1, ng)

TableOf(idm, ng) == [r \in 1..Len(idm) |-> RowOf(idm[r], r, 1, ng)]

IdMatrices(ng, nr) == [1..nr -> [1..ng -> IdValues]]

Unused == "unused"

IdleAggregator ==
    /\ pix_con = Unused /\ frames_per_min = Unused
    /\ frames_per_bin = Unused /\ frame_index = Unused
    /\ t = Unused /\ df_out = Unused /\ scanned = Unused
IdleAssembler == table = Unused /\ frame = Unused /\ coordinates = Unused
IdleFile ==
    /\ files = Unused /\ fileIdx = Unused /\ cfg = Unused
    /\ output_file = [open |-> FALSE, rows |-> <<>>]

aggVars == <<pix_con, frames_per_min, frames_per_bin, frame_index, t, df_out, scanned>>
asmVars == <<table, frame, coordinates>>
fileVars == <<files, fileIdx, output_file, cfg>>

InitAssemble ==
    /\ pc = "combine_df"
    /\ \E ng \in 1..MaxGroups, nr \in 0..MaxRows :
          \E idm \in IdMatrices(ng, nr) : table = TableOf(idm, ng)
    /\ frame = 0
    /\ coordinates = <<>>
    /\ args = Unused /\ ret = Unused /\ error = "none"
    /\ IdleAggregator /\ IdleFile

\* One iteration of "for frame in df.index"
AssembleFrame ==
    /\ pc = "combine_df"
    /\ frame < Len(table)
    /\ coordinates' = coordinates \o FrameEntry(table[frame + 1])
    /\ frame' = frame + 1
    /\ UNCHANGED <<pc, table, args, ret, error, aggVars, fileVars>>

\* return pd.DataFrame(coordinates, columns = ['x','y'])
AssembleReturn ==
    /\ pc = "combine_df"
    /\ frame = Len(table)
    /\ pc' = "combine_df_done"
    /\ ret' = coordinates
    /\ UNCHANGED <<table, frame, coordinates, args, error, aggVars, fileVars>>

NextAssemble == AssembleFrame \/ AssembleReturn

SpecAssemble == InitAssemble /\ [][NextAssemble]_vars

----------------------------------------------------------------------------
(* Frame classifier and motion analyzer: the per-frame functions.  df is   *)
(* the trajectory, a sequence of <<x, y>>; frame is 0-based as in Python.  *)

X(df, f) == df[f + 1][1]
Y(df, f) == df[f + 1][2]

\* k in df.index, the RangeIndex 0..len(df)-1
InIndex(df, k) == k \in 0..(Len(df) - 1)

\* The test of line 88
LeftTestStrict(x, half) == RLt(x, half)
LeftTest(x, half) == RLe(x, half)

analyze_frame_left_right(df, f, left, right) ==
    LET half == RAdd(RDiv(RInt(right - left), RInt(2)), RInt(left))
    IN  IF LeftTest(RInt(X(df, f)), half) THEN <<"left 1/2">> ELSE <<"right 1/2">>

\* The first branch's test of line 108
TopThirdTestStrict(y, half, two_thirds) == RGe(y, half) /\ RLt(two_thirds, y)
TopThirdTest(y, half, two_thirds) == RGe(y, half) /\ RGe(y, two_thirds)

analyze_frame_top_bottom(df, f, top, bottom) ==
    LET half == RAdd(RDiv(RInt(top - bottom), RInt(2)), RInt(bottom))
        two_thirds == RAdd(RDiv(RInt(2 * (top - bottom)), RInt(3)), RInt(bottom))
        one_third == RAdd(RDiv(RInt(top - bottom), RInt(3)), RInt(bottom))
        y == RInt(Y(df, f))
    IN  IF TopThirdTest(y, half, two_thirds) THEN <<"top 1/2", "top 1/3">>
        ELSE IF RGe(y, half) /\ RLt(y, two_thirds) THEN <<"top 1/2", "middle 1/3">>
        ELSE IF RLt(y, half) /\ RGe(y, one_third) THEN <<"bottom 1/2", "middle 1/3">>
        ELSE IF RLt(y, half) /\ RLt(y, one_third) THEN <<"bottom 1/2", "bottom 1/3">>
        ELSE None

distance_from_bottom(df, f, bottom) == Y(df, f) - bottom

\* sum(abs(np.diff(list))) over the samples from..to of one axis
RECURSIVE AbsDiffSum(_, _, _, _)
AbsDiffSum(df, axis, from, to) ==
    IF from >= to THEN 0
    ELSE Abs(df[from + 2][axis] - df[from + 1][axis]) + AbsDiffSum(df, axis, from + 1, to)

\* The test of line 156 that the window can be read
WindowTest(df, f, bin_size) == InIndex(df, f + bin_size + 1)

\* The radicand of the distance: the function returns its square root
distance_travelled(df, f, bin_size) ==
    IF WindowTest(df, f, bin_size)
    THEN LET x_diffs == AbsDiffSum(df, 1, f, f + bin_size)
             y_diffs == AbsDiffSum(df, 2, f, f + bin_size)
         IN  x_diffs * x_diffs + y_diffs * y_diffs
    ELSE 0

Square(a) == RMul(a, a)

\* sqrt(radicand) * c ? tolerance, decided on the squares
ScaledCompare(radicand, c, tolerance, strict) ==
    LET lhs2 == RMul(RInt(radicand), Square(c))
        rhs2 == Square(tolerance)
    IN  IF c[1] >= 0
        THEN IF tolerance[1] < 0 THEN FALSE
             ELSE IF strict THEN RLt(lhs2, rhs2) ELSE RLe(lhs2, rhs2)
        ELSE IF tolerance[1] > 0 THEN TRUE
             ELSE IF strict THEN RLt(rhs2, lhs2) ELSE RLe(rhs2, lhs2)

\* The test of line 144: d < tolerance
BelowOrEqual(radicand, c, tolerance) == ScaledCompare(radicand, c, tolerance, FALSE)
Below(radicand, c, tolerance) == ScaledCompare(radicand, c, tolerance, TRUE)

analyze_freezing(df, f, bin_size, tolerance, pixcon) ==
    LET d == distance_travelled(df, f, bin_size)
    IN  IF ~RIsZero(pixcon)
        THEN Below(d, pixcon, tolerance)
        ELSE Below(d, RInt(1), tolerance)

----------------------------------------------------------------------------
(* The classifiers applied to one frame of a trajectory.                   *)

MaxExtent == 6   \* largest top - bottom and right - left

InitClassify ==
    /\ pc = "call"
    /\ \E o \in 0..1, h \in 1..MaxExtent, w \in 1..MaxExtent :
         \E x \in (o - 1)..(o + w + 1), y \in (o - 1)..(o + h + 1), f \in 0..1 :
            args = [df |-> [k \in 1..(f + 1) |->
                               IF k = f + 1 THEN <<x, y>> ELSE <<o, o>>],
                    frame |-> f,
                    top |-> o + h, bottom |-> o, left |-> o, right |-> o + w]
    /\ ret = Unused /\ error = "none"
    /\ IdleAssembler /\ IdleAggregator /\ IdleFile

CallTopBottom ==
    /\ pc = "call"
    /\ pc' = "analyze_frame_top_bottom"
    /\ ret' = analyze_frame_top_bottom(args.df, args.frame, args.top, args.bottom)
    /\ UNCHANGED <<args, error, asmVars, aggVars, fileVars>>

CallLeftRight ==
    /\ pc = "call"
    /\ pc' = "analyze_frame_left_right"
    /\ ret' = analyze_frame_left_right(args.df, args.frame, args.left, args.right)
    /\ UNCHANGED <<args, error, asmVars, aggVars, fileVars>>

NextClassify == CallTopBottom \/ CallLeftRight

SpecClassify == InitClassify /\ [][NextClassify]_vars

----------------------------------------------------------------------------
(* The motion functions applied to one frame of a trajectory.              *)

MaxTrack == 3    \* frames of a trajectory
MaxBin == 2      \* bin size, in frames

\* Positions whose pairwise steps include lengths 0, 2, 3, 4 and 5
Points == {<<0, 0>>, <<2, 0>>, <<3, 4>>, <<0, 4>>}
Tolerances == {RInt(0), RInt(2), RInt(5)}
Factors == {RInt(0), Rat(1, 2), RInt(2)}

Tracks(n) == [1..n -> Points]

InitMotion ==
    /\ pc = "call"
    /\ \E n \in 1..MaxTrack :
         \E df \in Tracks(n), f \in 0..(n - 1), b \in 0..MaxBin,
            tol \in Tolerances, c \in Factors :
            args = [df |-> df, frame |-> f, bin_size |-> b,
                    tolerance |-> tol, pix_con |-> c, bottom |-> 0]
    /\ ret = Unused /\ error = "none"
    /\ IdleAssembler /\ IdleAggregator /\ IdleFile

CallDistanceTravelled ==
    /\ pc = "call"
    /\ pc' = "distance_travelled"
    /\ ret' = distance_travelled(args.df, args.frame, args.bin_size)
    /\ UNCHANGED <<args, error, asmVars, aggVars, fileVars>>

CallAnalyzeFreezing ==
    /\ pc = "call"
    /\ pc' = "analyze_freezing"
    /\ ret' = analyze_freezing(args.df, args.frame, args.bin_size,
                               args.tolerance, args.pix_con)
    /\ UNCHANGED <<args, error, asmVars, aggVars, fileVars>>

CallDistanceFromBottom ==
    /\ pc = "call"
    /\ pc' = "distance_from_bottom"
    /\ ret' = distance_from_bottom(args.df, args.frame, args.bottom)
    /\ UNCHANGED <<args, error, asmVars, aggVars, fileVars>>

NextMotion == CallDistanceTravelled \/ CallAnalyzeFreezing \/ CallDistanceFromBottom

SpecMotion == InitMotion /\ [][NextMotion]_vars

----------------------------------------------------------------------------
(* Temporal aggregator: min_by_min_top_bottom_analysis.  args holds its    *)
(* parameters: df, tank_coordinates, trial, freeze_bin, freeze_tolerance,  *)
(* mode, use_real_dist, real_len.  trial is an integer in time mode and a  *)
(* fraction (the float fps) in fps mode.                                   *)

Parameters == <<"top 1/2", "bottom 1/2", "top 1/3", "middle 1/3", "bottom 1/3",
                "distance from bottom", "freezing", "left 1/2", "right 1/2",
                "distance travelled">>

ParameterSet == {Parameters[k] : k \in DOMAIN Parameters}
Regions == {"top 1/2", "bottom 1/2", "top 1/3", "middle 1/3", "bottom 1/3",
            "left 1/2", "right 1/2"}

SecondsPerMinute == 60
Percent == 100

Unbound == "unbound"   \* a local that was never assigned

Elements(seq) == {seq[k] : k \in DOMAIN seq}

\* range(a, b)
Range(a, b) == a..(b - 1)

\* Lines 198-206
ConversionFactor(use_real_dist, real_len, tank) ==
    IF use_real_dist
    THEN IF real_len[1] = "x" THEN Rat(real_len[2], Abs(tank.right - tank.left))
         ELSE IF real_len[1] = "y" THEN Rat(real_len[2], Abs(tank.top - tank.bottom))
         ELSE Unbound
    ELSE RInt(0)

\* The labels the two classifiers return for a frame
Whereabouts(df, f, tank) ==
    Elements(analyze_frame_top_bottom(df, f, tank.top, tank.bottom))
        \cup Elements(analyze_frame_left_right(df, f, tank.left, tank.right))

\* The running totals of the frame loop over range(from, to).  Addition is
\* associative on the exact values, so the range is summed by halves, which
\* keeps the evaluation shallow on recordings of thousands of frames.
RECURSIVE SumFromBottom(_, _, _, _)
SumFromBottom(df, from, to, bottom) ==
    IF from >= to THEN 0
    ELSE IF to = from + 1 THEN distance_from_bottom(df, from, bottom)
    ELSE LET mid == (from + to) \div 2
         IN  SumFromBottom(df, from, mid, bottom) + SumFromBottom(df, mid, to, bottom)

RECURSIVE SumTravelled(_, _, _)
SumTravelled(df, from, to) ==
    IF from >= to THEN 0
    ELSE IF to = from + 1 THEN Sqrt(distance_travelled(df, from, 1))
    ELSE LET mid == (from + to) \div 2
         IN  SumTravelled(df, from, mid) + SumTravelled(df, mid, to)

\* The dictionary Output after the frame loop over range(from, to)
ScanFrames(df, from, to, tank, bin, tolerance, pixcon) ==
    LET where == [f \in Range(from, to) |-> Whereabouts(df, f, tank)]
    IN  [x \in ParameterSet |->
            IF x \in Regions
            THEN Cardinality({f \in Range(from, to) : x \in where[f]})
            ELSE IF x = "freezing"
            THEN Cardinality({f \in Range(from, to) :
                                analyze_freezing(df, f, bin, tolerance, pixcon)})
            ELSE IF x = "distance from bottom"
            THEN SumFromBottom(df, from, to, tank.bottom)
            ELSE SumTravelled(df, from, to)]

\* Lines 247-251 and 291-295: what is stored in df_out for key x
StoreAveraged(x, total, n) == Rat(total * Percent, n)
Store(x, total, n) ==
    IF x # "distance travelled" THEN Rat(total * Percent, n) ELSE RInt(total)

\* One iteration of the bucket loop over range(from, to): the exception it
\* raises, or the column it fills.
ScanBucket(df, from, to, tank, bin, tolerance, pixcon) ==
    LET n == IF to > from THEN to - from ELSE 0
    IN  IF n > 0 /\ pixcon = Unbound THEN [raised |-> "NameError"]
        ELSE IF n = 0 THEN [raised |-> "ZeroDivisionError"]
        ELSE LET Output == ScanFrames(df, from, to, tank, bin, tolerance, pixcon)
             IN  [raised |-> "none",
                  column |-> [x \in ParameterSet |-> Store(x, Output[x], n)]]

\* Line 298
Rescale(v) == RDiv(v, RInt(Percent))

\* Lines 300-302: the rows that are multiplied by pix_con
ConvertedNone == {}
Converted == {"distance from bottom", "distance travelled"}

\* Lines 297-302 applied to one column
FinishColumn(col, use_real_dist, pixcon) ==
    LET scaled == [col EXCEPT !["distance from bottom"] = Rescale(@)]
    IN  IF use_real_dist
        THEN [x \in ParameterSet |->
                IF x \in Converted THEN RMul(scaled[x], pixcon) ELSE scaled[x]]
        ELSE scaled

AggEnter ==
    /\ pc = "min_by_min_top_bottom_analysis"
    /\ pix_con' = ConversionFactor(args.use_real_dist, args.real_len,
                                   args.tank_coordinates)
    /\ pc' = "mode"
    /\ UNCHANGED <<args, ret, error, frames_per_min, frames_per_bin, frame_index,
                   t, df_out, scanned, asmVars, fileVars>>

Raise(e) ==
    /\ pc' = "raised"
    /\ error' = e

\* Lines 209-219
AggTimeMode ==
    /\ pc = "mode"
    /\ args.mode = "time"
    /\ LET trial_length == args.trial
       IN  IF trial_length = 0
           THEN /\ Raise("ZeroDivisionError")
                /\ UNCHANGED <<frames_per_min, frames_per_bin, frame_index, t,
                               df_out, scanned>>
           ELSE LET fpm == Len(args.df) \div trial_length
                IN  /\ frames_per_min' = fpm
                    /\ frames_per_bin' =
                         PyInt(RMul(RInt(fpm \div SecondsPerMinute), args.freeze_bin))
                    /\ frame_index' = [x \in 1..(trial_length + 1) |-> (x - 1) * fpm]
                    /\ t' = 0
                    /\ df_out' = <<>>
                    /\ scanned' = <<>>
                    /\ pc' = "time_loop"
                    /\ error' = error
    /\ UNCHANGED <<args, ret, pix_con, asmVars, fileVars>>

\* The label of the trailing partial minute, line 261
PartialLabelClean(trial_length) == trial_length
PartialLabel(trial_length) ==
    LET whole == PyInt(trial_length)
    IN  RAdd(RInt(whole),
             RDiv(RMul(RSub(trial_length, RInt(whole)), RInt(SecondsPerMinute)),
                  RInt(Percent)))

\* Lines 253-265
AggFpsMode ==
    /\ pc = "mode"
    /\ args.mode = "fps"
    /\ LET fps == args.trial
           fpm == RMul(fps, RInt(SecondsPerMinute))
       IN  IF RIsZero(fpm)
           THEN /\ Raise("ZeroDivisionError")
                /\ UNCHANGED <<frames_per_min, frames_per_bin, frame_index, t,
                               df_out, scanned>>
           ELSE LET trial_length == RDiv(RInt(Len(args.df)), fpm)
                    whole == PyInt(RAdd(trial_length, RInt(1))) - 1
                IN  /\ frames_per_min' = fpm
                    /\ frames_per_bin' = PyInt(RMul(fps, args.freeze_bin))
                    /\ frame_index' = <<RInt(0)>>
                                        \o [m \in 1..whole |-> RInt(m)]
                                        \o <<PartialLabel(trial_length)>>
                    /\ t' = 0
                    /\ df_out' = <<>>
                    /\ scanned' = <<>>
                    /\ pc' = "fps_loop"
                    /\ error' = error
    /\ UNCHANGED <<args, ret, pix_con, asmVars, fileVars>>

\* Neither branch of lines 209/253 is taken: line 298 reads df_out
AggNoMode ==
    /\ pc = "mode"
    /\ args.mode \notin {"time", "fps"}
    /\ Raise("UnboundLocalError")
    /\ UNCHANGED <<args, ret, pix_con, frames_per_min, frames_per_bin, frame_index,
                   t, df_out, scanned, asmVars, fileVars>>

\* The outcome of a bucket: the column is appended, or the exception ends the run
BucketStep(from, to, label) ==
    LET r == ScanBucket(args.df, from, to, args.tank_coordinates, frames_per_bin,
                        args.freeze_tolerance, pix_con)
    IN  IF r.raised # "none"
        THEN /\ Raise(r.raised)
             /\ UNCHANGED <<t, df_out, scanned>>
        ELSE /\ df_out' = Append(df_out, [label |-> label, values |-> r.column])
             /\ scanned' = Append(scanned, Range(from, to))
             /\ t' = t + 1
             /\ UNCHANGED <<pc, error>>

\* Lines 221-251, one iteration
AggScanTime ==
    /\ pc = "time_loop"
    /\ t < Len(frame_index) - 1
    /\ BucketStep(frame_index[t + 1], frame_index[t + 2], RInt(t + 1))
    /\ UNCHANGED <<args, ret, pix_con, frames_per_min, frames_per_bin, frame_index,
                   asmVars, fileVars>>

\* Lines 267-295, one iteration
AggScanFps ==
    /\ pc = "fps_loop"
    /\ t < Len(frame_index) - 1
    /\ BucketStep(PyInt(RMul(frame_index[t + 1], RInt(PyInt(frames_per_min)))),
                  PyInt(RMul(frame_index[t + 2], frames_per_min)),
                  frame_index[t + 2])
    /\ UNCHANGED <<args, ret, pix_con, frames_per_min, frames_per_bin, frame_index,
                   asmVars, fileVars>>

\* Lines 297-305
AggFinish ==
    /\ pc \in {"time_loop", "fps_loop"}
    /\ t = Len(frame_index) - 1
    /\ IF args.use_real_dist /\ pix_con = Unbound
       THEN /\ Raise("NameError")
            /\ UNCHANGED <<df_out, ret>>
       ELSE /\ df_out' = [c \in DOMAIN df_out |->
                            [df_out[c] EXCEPT !.values =
                                FinishColumn(@, args.use_real_dist, pix_con)]]
            /\ ret' = df_out'
            /\ pc' = "returned"
            /\ error' = error
    /\ UNCHANGED <<args, pix_con, frames_per_min, frames_per_bin, frame_index, t,
                   scanned, asmVars, fileVars>>

NextAggregate ==
    \/ AggEnter \/ AggTimeMode \/ AggFpsMode \/ AggNoMode
    \/ AggScanTime \/ AggScanFps \/ AggFinish

----------------------------------------------------------------------------
(* The aggregator called on its own.                                       *)

MaxFrames == 7   \* frame counts 0..MaxFrames, and
MaxExtra == 2    \* SecondsPerMinute..SecondsPerMinute + MaxExtra
MaxTrial == 3    \* trial length in minutes (time mode)

\* Trajectories repeat a short cycle of positions whose steps, the one that
\* closes the cycle included, have whole-number lengths.
Patterns == { << <<3, 4>> >>,
              << <<0, 0>>, <<0, 4>> >>,
              << <<0, 0>>, <<2, 0>> >>,
              << <<0, 0>>, <<3, 4>>, <<0, 4>> >> }

Track(pattern, n) == [k \in 1..n |-> pattern[((k - 1) % Len(pattern)) + 1]]

ShortCounts == 0..MaxFrames
LongCounts == {SecondsPerMinute + r : r \in 0..MaxExtra}

Tanks == { [top |-> 6, bottom |-> 0, left |-> 0, right |-> 6],
           [top |-> 9, bottom |-> -3, left |-> -1, right |-> 3] }

\* (mode, trial, frame count): minutes in time mode, frames per second in
\* fps mode; the slow frame rates are those analyze_file passes.
Timings ==
    {<<"time", T, n>> : T \in 0..MaxTrial, n \in ShortCounts \cup LongCounts}
      \cup {<<"fps", RInt(1), n>> : n \in ShortCounts \cup LongCounts}
      \cup {<<"fps", r, n>> : r \in {RInt(0), Rat(1, 12), Rat(1, 24)}, n \in ShortCounts}
      \cup {<<"other", 1, 1>>}

FreezeBins == {Rat(1, 2), RInt(2)}
FreezeTolerances == {RInt(0), RInt(2)}

\* (use_real_dist, real_len): the default, then --x= / --y= with a length,
\* then an axis token that is neither
Calibrations == {<<FALSE, <<"x", 0>> >>}
                  \cup {<<TRUE, <<"x", 3>> >>, <<TRUE, <<"y", 3>> >>, <<TRUE, <<"x", 0>> >>}
                  \cup {<<TRUE, <<"z", 3>> >>}

InitAggregate ==
    /\ pc = "min_by_min_top_bottom_analysis"
    /\ \E p \in Patterns, tank \in Tanks, tm \in Timings,
          fb \in FreezeBins, tol \in FreezeTolerances, cal \in Calibrations :
          \* the minute-long trajectories are tried in the square tank, without
          \* calibration and with a calibrated x axis
          /\ tm[3] \in LongCounts =>
                /\ tank.top - tank.bottom = tank.right - tank.left
                /\ cal \in {<<FALSE, <<"x", 0>> >>, <<TRUE, <<"x", 3>> >>}
          /\ args = [df |-> Track(p, tm[3]), tank_coordinates |-> tank,
                     trial |-> tm[2], freeze_bin |-> fb, freeze_tolerance |-> tol,
                     mode |-> tm[1], use_real_dist |-> cal[1], real_len |-> cal[2]]
    /\ ret = Unused /\ error = "none"
    /\ IdleAssembler /\ IdleAggregator /\ IdleFile

SpecAggregate == InitAggregate /\ [][NextAggregate]_vars

----------------------------------------------------------------------------
(* The aggregator called on full-length recordings: a one-minute trial of  *)
(* 600 frames in time mode, and a recording of 2750 frames in fps mode at  *)
(* 30 frames per second and at 30 frames per minute.                       *)

ExampleTank == [top |-> 100, bottom |-> 0, left |-> 0, right |-> 100]

\* A fish that stays at the centre of the tank, and one that moves up and
\* down by 4 in its lower part
ExamplePatterns == { << <<50, 50>> >>, << <<50, 20>>, <<50, 24>> >> }

ExampleTimings == { <<"time", 1, 600>>,
                    <<"fps", RInt(30), 2750>>,
                    <<"fps", Rat(1, 2), 2750>> }

ExampleTolerances == {RInt(0), RInt(2)}

InitExamples ==
    /\ pc = "min_by_min_top_bottom_analysis"
    /\ \E p \in ExamplePatterns, tm \in ExampleTimings, fb \in FreezeBins,
          tol \in ExampleTolerances :
          \* without calibration, as by default
          args = [df |-> Track(p, tm[3]), tank_coordinates |-> ExampleTank,
                  trial |-> tm[2], freeze_bin |-> fb, freeze_tolerance |-> tol,
                  mode |-> tm[1], use_real_dist |-> FALSE, real_len |-> <<"x", 0>>]
    /\ ret = Unused /\ error = "none"
    /\ IdleAssembler /\ IdleAggregator /\ IdleFile

NextExamples ==
    \/ AggEnter \/ AggTimeMode \/ AggFpsMode
    \/ AggScanTime \/ AggScanFps \/ AggFinish

SpecExamples == InitExamples /\ [][NextExamples]_vars

----------------------------------------------------------------------------
(* Batch driver: analyze_file.  cfg holds its arguments; mode is the pair  *)
(* <<name, value>> of the string "name=value".  files is the list of       *)
(* trials, each with the raw table of its CSV file and the tank_coordinates*)
(* get_top_and_bottom reads from its annotation file.  output_file.rows is *)
(* what has been appended to the output, in order.  Reading the file list, *)
(* glob and the annotation parser are taken to succeed.                    *)

MaxFiles == 2      \* trials in a batch
MaxFileRows == 4   \* rows of a trial's raw table

\* The CSV of a trial: one detection group per row, following a pattern,
\* with no detection (id -1) in every third row.
TrialTable(pattern, n) ==
    [k \in 1..n |->
        IF k % 3 = 0 THEN <<-1, -1, -1, 0, 0, 0>>
        ELSE <<0, pattern[((k - 1) % Len(pattern)) + 1][1],
                  pattern[((k - 1) % Len(pattern)) + 1][2], 0, 0, 0>>]

FilePatterns == { << <<3, 4>> >>, << <<0, 0>>, <<3, 4>>, <<0, 4>> >> }

Trials == {[csv |-> TrialTable(p, n),
            tank |-> [top |-> 6, bottom |-> 0, left |-> 0, right |-> 6]] :
              p \in FilePatterns, n \in 0..MaxFileRows}

Modes == {<<"time", 1>>, <<"time", 2>>, <<"fps", 1>>, <<"fps", 2>>, <<"speed", 1>>}

FileCalibrations == {<<FALSE, <<"x", 0>> >>, <<TRUE, <<"x", 3>> >>, <<TRUE, <<"z", 3>> >>}

\* mode[:mode.find('=')].lower()
mode_type == cfg.mode[1]
\* mode[mode.find('=')+1:]
mode_value == cfg.mode[2]

InitFile ==
    /\ pc = "analyze_file"
    /\ \E ft \in {".txt", ".csv"} :
         \E n \in 1..(IF ft = ".csv" THEN 1 ELSE MaxFiles) :
           \E fs \in [1..n -> Trials], m \in Modes, cal \in FileCalibrations,
              noisy \in BOOLEAN, long \in BOOLEAN :
              /\ files = fs
              /\ cfg = [file_type |-> ft, mode |-> m, use_real_dist |-> cal[1],
                        real_len |-> cal[2], noisy |-> noisy,
                        freeze_bin |-> Rat(1, 2), freeze_tolerance |-> RInt(2),
                        long_format |-> long, measure |-> "distance travelled"]
    /\ fileIdx = 0
    /\ output_file = [open |-> FALSE, rows |-> <<>>]
    /\ args = Unused /\ ret = Unused /\ error = "none"
    /\ IdleAssembler /\ IdleAggregator

\* Line 365: output_file = open(output, 'a')
FileOpen ==
    /\ pc = "analyze_file"
    /\ output_file' = [output_file EXCEPT !.open = TRUE]
    /\ pc' = "mode_type"
    /\ UNCHANGED <<args, ret, error, files, fileIdx, cfg, asmVars, aggVars>>

\* Lines 369-375 and 427: the branch on mode_type
FileSelectMode ==
    /\ pc = "mode_type"
    /\ mode_type \in {"time", "fps"}
    /\ pc' = "files"
    /\ UNCHANGED <<args, ret, error, files, fileIdx, output_file, cfg,
                   asmVars, aggVars>>

\* Neither "time" nor "fps": both branches are skipped, down to line 496
FileNoMode ==
    /\ pc = "mode_type"
    /\ mode_type \notin {"time", "fps"}
    /\ pc' = "close"
    /\ UNCHANGED <<args, ret, error, files, fileIdx, output_file, cfg,
                   asmVars, aggVars>>

\* The trial argument analyze_file passes in fps mode, lines 433-435 and 446:
\* trial_length = len(df.index) / (fps * 60)
FpsTrial(n, fps) == Rat(n, fps * SecondsPerMinute)

\* Lines 379-390, 404-413, 431-451, 464-483: load a trial and call the
\* aggregator
FileLoadTrial ==
    /\ pc = "files"
    /\ fileIdx < Len(files)
    /\ LET df == combine_df(files[fileIdx + 1].csv)
       IN  args' = [df |-> df,
                    tank_coordinates |-> files[fileIdx + 1].tank,
                    trial |-> IF mode_type = "time" THEN mode_value
                              ELSE FpsTrial(Len(df), mode_value),
                    freeze_bin |-> cfg.freeze_bin,
                    freeze_tolerance |-> cfg.freeze_tolerance,
                    mode |-> mode_type,
                    use_real_dist |-> cfg.use_real_dist,
                    real_len |-> cfg.real_len]
    /\ pc' = "min_by_min_top_bottom_analysis"
    /\ UNCHANGED <<ret, error, files, fileIdx, output_file, cfg, asmVars, aggVars>>

\* convert_to_long_format: one row per bucket, tagged with the trial
LongRows(trial, out, measure) ==
    [c \in DOMAIN out |->
        [kind |-> "long", trial |-> trial, time |-> out[c].label,
         variable |-> measure, value |-> out[c].values[measure]]]

\* Lines 392-401 (and the three copies): write the trial's result, then print
FileWriteTrial ==
    /\ pc = "returned"
    /\ LET trial == fileIdx + 1
           written == IF cfg.long_format
                      THEN LongRows(trial, df_out, cfg.measure)
                      ELSE << [kind |-> "block", trial |-> trial, table |-> df_out],
                              [kind |-> "blank", trial |-> trial] >>
       IN  /\ output_file' = [output_file EXCEPT !.rows = @ \o written]
           \* frames_per_unit_time is assigned only under long_format
           /\ IF cfg.noisy = TRUE /\ ~cfg.long_format
              THEN /\ Raise("NameError")
                   /\ UNCHANGED fileIdx
              ELSE /\ fileIdx' = fileIdx + 1
                   /\ pc' = "files"
                   /\ error' = error
    /\ UNCHANGED <<args, ret, files, cfg, asmVars, aggVars>>

\* Line 496: output_file.close()
FileClose ==
    /\ \/ pc = "close"
       \/ pc = "files" /\ fileIdx = Len(files)
    /\ output_file' = [output_file EXCEPT !.open = FALSE]
    /\ pc' = "done"
    /\ UNCHANGED <<args, ret, error, files, fileIdx, cfg, asmVars, aggVars>>

NextFile ==
    \/ FileOpen \/ FileSelectMode \/ FileNoMode \/ FileLoadTrial
    \/ AggEnter \/ AggTimeMode \/ AggFpsMode
    \/ AggScanTime \/ AggScanFps \/ AggFinish
    \/ FileWriteTrial \/ FileClose

SpecFile == InitFile /\ [][NextFile]_vars

\* Batches in wide format without calibration, of trials whose CSV is empty
\* or has the longest tables
BatchTrials == {tr \in Trials : Len(tr.csv) \in {0, MaxFileRows - 1, MaxFileRows}}

\* The same start as InitFile, except that the locals of the aggregator
\* hold an empty value of their own kind instead of Unused: each is
\* assigned before it is read, so the value it starts with is never seen.
InitBatch ==
    /\ pc = "analyze_file"
    /\ \E ft \in {".txt", ".csv"} :
         \E n \in 1..(IF ft = ".csv" THEN 1 ELSE MaxFiles) :
           \E fs \in [1..n -> BatchTrials], m \in Modes, noisy \in BOOLEAN :
              /\ files = fs
              /\ cfg = [file_type |-> ft, mode |-> m, use_real_dist |-> FALSE,
                        real_len |-> <<"x", 0>>, noisy |-> noisy,
                        freeze_bin |-> Rat(1, 2), freeze_tolerance |-> RInt(2),
                        long_format |-> FALSE, measure |-> "distance travelled"]
              /\ args = [df |-> <<>>, tank_coordinates |-> fs[1].tank,
                         trial |-> IF m[1] = "fps" THEN RInt(0) ELSE 0,
                         freeze_bin |-> Rat(1, 2), freeze_tolerance |-> RInt(2),
                         mode |-> m[1], use_real_dist |-> FALSE,
                         real_len |-> <<"x", 0>>]
              /\ frames_per_min = IF m[1] = "fps" THEN RInt(0) ELSE 0
    /\ fileIdx = 0
    /\ output_file = [open |-> FALSE, rows |-> <<>>]
    /\ ret = <<>> /\ error = "none"
    /\ pix_con = RInt(0) /\ frames_per_bin = 0 /\ frame_index = <<>>
    /\ t = 0 /\ df_out = <<>> /\ scanned = <<>>
    /\ IdleAssembler

\* The run has neither finished nor ended in an exception.  At every such
\* position one action of NextFile can be taken, and at "done" and "raised"
\* none can: Running is the enabling condition of NextFile.
Running == pc \notin {"done", "raised"}

\* The interpreter runs the function to its end or to an exception: a step
\* that can be taken is taken.  This is weak fairness of NextFile,
\* WF_vars(NextFile), written out with Running for ENABLED <<NextFile>>_vars.
SpecBatchLive ==
    InitBatch /\ [][NextFile]_vars /\ ([]<>~Running \/ []<><<NextFile>>_vars)

----------------------------------------------------------------------------
(* Claims                                                                  *)

\* Groups of row r (1-based position in the table) whose id field is >= 0
ValidGroups(r) ==
    {g \in 1..(Len(table[r]) \div GroupWidth) : table[r][GroupWidth * (g - 1) + 1] >= 0}

MaxOf(S) == CHOOSE m \in S : \A n \in S : n <= m

\* The rows among the first n that have a valid group, in frame order
RECURSIVE KeptRows(_)
KeptRows(n) ==
    IF n = 0 THEN <<>>
    ELSE KeptRows(n - 1) \o (IF ValidGroups(n) # {} THEN <<n>> ELSE <<>>)

\* C1: the trajectory holds, in frame order, one entry per frame that has a
\* group with id >= 0, and that entry is the (x, y) of the right-most such
\* group; frames without one contribute nothing (stated after every
\* iteration for the frames visited so far, and so for the returned value).
C1_LastValidPerFrame ==
    pc \in {"combine_df", "combine_df_done"} =>
        LET kept == KeptRows(frame)
        IN  /\ Len(coordinates) = Len(kept)
            /\ Len(coordinates) = Cardinality({r \in 1..frame : ValidGroups(r) # {}})
            /\ \A k \in 1..Len(kept) :
                  LET r == kept[k]
                      g == MaxOf(ValidGroups(r))
                  IN  coordinates[k] = <<table[r][GroupWidth * (g - 1) + 2],
                                         table[r][GroupWidth * (g - 1) + 3]>>
            /\ (pc = "combine_df_done" => frame = Len(table) /\ ret = coordinates)

\* A returned trajectory in which a frame was dropped, and a frame with two
\* valid groups contributed its right-most one.
C1_Witness ==
    /\ pc = "combine_df_done"
    /\ \E r \in 1..Len(table) : ValidGroups(r) = {}
    /\ \E r \in 1..Len(table) : Cardinality(ValidGroups(r)) >= 2
    /\ Len(coordinates) = 1

\* C2: with top > bottom and right > left, analyze_frame_top_bottom returns
\* exactly one of the four label pairs, never nothing, chosen by y >= midpoint
\* and y >= two-thirds / y >= one-third (a y at a cut-off goes to the upper
\* region), and analyze_frame_left_right returns one label, left-half iff
\* x <= left + (right - left)/2.  The cut-offs are compared cross-multiplied.
C2_ClassifierPartition ==
    LET h == args.top - args.bottom
        dy == Y(args.df, args.frame) - args.bottom
        w == args.right - args.left
        dx == X(args.df, args.frame) - args.left
    IN  /\ pc = "analyze_frame_top_bottom" =>
             /\ ret # None
             /\ ret = (IF 2 * dy >= h
                       THEN (IF 3 * dy >= 2 * h THEN <<"top 1/2", "top 1/3">>
                                                ELSE <<"top 1/2", "middle 1/3">>)
                       ELSE (IF 3 * dy >= h THEN <<"bottom 1/2", "middle 1/3">>
                                            ELSE <<"bottom 1/2", "bottom 1/3">>))
        /\ pc = "analyze_frame_left_right" =>
             ret = (IF 2 * dx <= w THEN <<"left 1/2">> ELSE <<"right 1/2">>)

\* A point exactly on the two-thirds line classified top-third, with the
\* frame not the first of the trajectory.
C2_Witness ==
    /\ pc = "analyze_frame_top_bottom"
    /\ args.frame = 1
    /\ 3 * (Y(args.df, args.frame) - args.bottom) = 2 * (args.top - args.bottom)
    /\ ret = <<"top 1/2", "top 1/3">>

\* C6: analyze_freezing is True iff the bin displacement, times the
\* calibration factor when that is nonzero, is strictly below the tolerance:
\* at a displacement equal to the tolerance the frame is not freezing.
C6_StrictFreezing ==
    pc = "analyze_freezing" =>
        LET r == distance_travelled(args.df, args.frame, args.bin_size)
            c == IF args.pix_con[1] = 0 THEN <<1, 1>> ELSE args.pix_con
            tol == args.tolerance
            \* (sqrt(r) * c)^2 and tol^2 over a common denominator
            lhs2 == r * c[1] * c[1] * tol[2] * tol[2]
            rhs2 == tol[1] * tol[1] * c[2] * c[2]
        IN  /\ ret \in BOOLEAN
            /\ ret <=> (lhs2 < rhs2)
            /\ (lhs2 = rhs2 => ret = FALSE)

\* A moving bin whose scaled displacement equals the tolerance exactly, not
\* freezing: a step of length 4 at factor 1/2 against tolerance 2.
C6_Witness ==
    /\ pc = "analyze_freezing"
    /\ ret = FALSE
    /\ args.tolerance = RInt(2)
    /\ args.pix_con = Rat(1, 2)
    /\ distance_travelled(args.df, args.frame, args.bin_size) = 16

----------------------------------------------------------------------------
(* Claims about the aggregator                                             *)

RECURSIVE SumOver(_, _)
SumOver(fn, S) ==
    IF S = {} THEN 0
    ELSE LET x == CHOOSE x \in S : TRUE IN fn[x] + SumOver(fn, S \ {x})

AxisValid == args.use_real_dist => args.real_len[1] \in {"x", "y"}
NFrames == Len(args.df)

\* The buckets scanned so far in time mode are the ranges
\* [(i-1)*fpm, i*fpm) with fpm = floor(F/T): equal in length, contiguous,
\* disjoint, and below T*fpm.
TimeBucketsExact ==
    LET T == args.trial
        fpm == NFrames \div T
    IN  /\ frames_per_min = fpm
        /\ Len(scanned) <= T
        /\ \A i \in 1..Len(scanned) : scanned[i] = ((i - 1) * fpm)..(i * fpm - 1)
        /\ \A i \in 1..Len(scanned) : \A f \in scanned[i] : f < T * fpm
        /\ \A i, j \in 1..Len(scanned) : i # j => scanned[i] \cap scanned[j] = {}
        /\ Len(df_out) = Len(scanned)

\* C3 (as stated): in time mode with T >= 1 the aggregator emits exactly T
\* buckets, bucket i scanning exactly [(i-1)*fpm, i*fpm) with
\* fpm = floor(F/T); so with a valid configuration it does not end in an
\* exception, and what it returns has T columns.
C3_TimeBuckets ==
    (args.mode = "time" /\ args.trial >= 1 /\ AxisValid) =>
        /\ pc \in {"time_loop", "returned"} => TimeBucketsExact
        /\ pc = "returned" => Len(df_out) = args.trial
        /\ pc # "raised"

\* The part of C3 that the code keeps: whatever was scanned is scanned in
\* the stated ranges, and a returned table has T columns.
C3_ScannedRanges ==
    (args.mode = "time" /\ args.trial >= 1) =>
        /\ pc \in {"time_loop", "returned"} => TimeBucketsExact
        /\ pc = "returned" => Len(df_out) = args.trial

IntegerRate == args.mode = "fps" /\ args.trial[2] = 1 /\ args.trial[1] >= 1

\* C4 (as stated): in fps mode with an integer rate R, fpm = R*60 and
\* k = floor(F/fpm), the returned buckets are the k whole minutes
\* [i*fpm, (i+1)*fpm) and one trailing bucket [k*fpm, F), so that every frame
\* 0..F-1 lies in exactly one bucket.
C4_FpsBucketsCoverAll ==
    (IntegerRate /\ pc = "returned") =>
        LET fpm == args.trial[1] * SecondsPerMinute
            k == NFrames \div fpm
        IN  /\ Len(scanned) = k + 1
            /\ \A i \in 1..k : scanned[i] = ((i - 1) * fpm)..(i * fpm - 1)
            /\ scanned[k + 1] = (k * fpm)..(NFrames - 1)
            /\ \A f \in 0..(NFrames - 1) :
                 Cardinality({i \in 1..Len(scanned) : f \in scanned[i]}) = 1

\* What the code does instead: the trailing bucket ends at
\* k*fpm + floor(0.6 * (F - k*fpm)).
C4_TrailingSixTenths ==
    (IntegerRate /\ pc = "returned") =>
        LET fpm == args.trial[1] * SecondsPerMinute
            k == NFrames \div fpm
        IN  /\ Len(scanned) = k + 1
            /\ \A i \in 1..k : scanned[i] = ((i - 1) * fpm)..(i * fpm - 1)
            /\ scanned[k + 1] =
                 (k * fpm)..(k * fpm + ((6 * (NFrames - k * fpm)) \div 10) - 1)

\* The values a returned column must hold when no calibration is used, given
\* how distance-from-bottom is scaled: its sum over the bucket times num/den.
UncalibratedColumn(c, num, den) ==
    LET S == scanned[c]
        n == Cardinality(S)
        v == df_out[c].values
        tank == args.tank_coordinates
    IN  /\ n > 0
        /\ v["distance from bottom"] =
             Rat(num * SumOver([f \in S |-> Y(args.df, f) - tank.bottom], S), den * n)
        /\ v["distance travelled"] =
             RInt(SumOver([f \in S |-> Sqrt(distance_travelled(args.df, f, 1))], S))
        /\ \A x \in Regions :
             v[x] = Rat(Percent * Cardinality({f \in S : x \in Whereabouts(args.df, f, tank)}), n)
        /\ v["freezing"] =
             Rat(Percent * Cardinality({f \in S :
                    analyze_freezing(args.df, f, frames_per_bin,
                                     args.freeze_tolerance, RInt(0))}), n)

\* C7 (as stated): without calibration every returned bucket reports
\* distance-from-bottom as sum(y - bottom)/n/100, distance-travelled as the
\* raw sum, and every other metric as count/n*100.
C7_FromBottomOverHundred ==
    (pc = "returned" /\ ~args.use_real_dist) =>
        \A c \in DOMAIN df_out : UncalibratedColumn(c, 1, Percent)

\* C7 (amended): without calibration every returned bucket reports
\* distance-from-bottom as sum(y - bottom)/n (the *100 of the percentage
\* step and the /100 after it cancel), distance-travelled as the raw sum,
\* and every other metric as count/n*100.
C7_FromBottomAverage ==
    (pc = "returned" /\ ~args.use_real_dist) =>
        \A c \in DOMAIN df_out : UncalibratedColumn(c, 1, 1)

\* A returned bucket of a fish that stays at y = 4 above bottom = 0: reported 4
C7_Witness ==
    /\ pc = "returned"
    /\ ~args.use_real_dist
    /\ args.tank_coordinates.bottom = 0
    /\ Len(df_out) >= 1
    /\ \A f \in scanned[1] : Y(args.df, f) = 4
    /\ Cardinality(scanned[1]) >= 2
    /\ df_out[1].values["distance from bottom"] = RInt(4)
    /\ df_out[1].values["distance travelled"] = RInt(0)
    /\ df_out[1].values["top 1/2"] = RInt(100)

\* The factor of the calibration: real length over the extent of its axis
ClaimedFactor ==
    LET tank == args.tank_coordinates
    IN  IF args.real_len[1] = "x"
        THEN Rat(args.real_len[2], Abs(tank.right - tank.left))
        ELSE Rat(args.real_len[2], Abs(tank.top - tank.bottom))

\* The column the same bucket gets in the run without calibration
PlainColumn(c) ==
    LET from == CHOOSE f \in scanned[c] : \A g \in scanned[c] : f <= g
        to == Cardinality(scanned[c]) + from
    IN  FinishColumn(ScanBucket(args.df, from, to, args.tank_coordinates,
                                frames_per_bin, args.freeze_tolerance,
                                RInt(0)).column,
                     FALSE, RInt(0))

\* The percentage of the bucket's frames whose bin displacement times
\* factor is below the tolerance
FreezingAt(c, factor) ==
    Rat(Percent * Cardinality({f \in scanned[c] :
            Below(distance_travelled(args.df, f, frames_per_bin), factor,
                  args.freeze_tolerance)}),
        Cardinality(scanned[c]))

CalibratedColumn(c, factor, freezeFactor) ==
    LET v == df_out[c].values
        plain == PlainColumn(c)
    IN  /\ v["distance from bottom"] = RMul(factor, plain["distance from bottom"])
        /\ v["distance travelled"] = RMul(factor, plain["distance travelled"])
        /\ \A x \in Regions : v[x] = plain[x]
        /\ v["freezing"] = FreezingAt(c, freezeFactor)

C9_NoDivisionByZero ==
    ( \/ args.mode = "time" /\ args.trial >= 1
      \/ args.mode = "fps" /\ args.trial[1] > 0 ) =>
        error # "ZeroDivisionError"

----------------------------------------------------------------------------
(* Claims about analyze_file                                               *)

InCall == pc \in {"min_by_min_top_bottom_analysis", "mode", "time_loop",
                  "fps_loop", "returned"}

\* C5 (as stated): for a trial in mode 'fps=R' whose trajectory has F frames
\* the aggregator runs with frame rate R: frames-per-minute is R*60, there
\* are floor(F/(R*60)) whole-minute buckets, and the freezing bin is
\* int(R * freeze_bin).
C5_FpsPassedToAggregator ==
    (mode_type = "fps" /\ InCall) =>
        /\ args.trial = RInt(mode_value)
        /\ pc \in {"fps_loop", "returned"} =>
             /\ frames_per_min = RInt(mode_value * SecondsPerMinute)
             /\ Len(frame_index) - 2 = NFrames \div (mode_value * SecondsPerMinute)
             /\ frames_per_bin = PyInt(RMul(RInt(mode_value), cfg.freeze_bin))

\* What the code does: the aggregator's fps is the trial length in minutes,
\* F/(R*60), so its frames-per-minute is F/R.
C5_TrialLengthPassed ==
    (mode_type = "fps" /\ InCall) =>
        /\ args.trial = Rat(NFrames, mode_value * SecondsPerMinute)
        /\ pc \in {"fps_loop", "returned"} =>
             frames_per_min = Rat(NFrames, mode_value)

ConfigurationValid ==
    /\ mode_type \in {"time", "fps"}
    /\ cfg.use_real_dist => cfg.real_len[1] \in {"x", "y"}

\* C10 (as stated): with a timing mode that is neither 'time' nor 'fps', or
\* a calibration axis that is neither 'x' nor 'y', the run ends in a
\* configuration error before the output file is opened or written and
\* before any trial is aggregated; it never finishes as if it had succeeded.
C10_FailFast ==
    ~ConfigurationValid =>
        /\ ~output_file.open
        /\ output_file.rows = <<>>
        /\ pc \notin {"done", "min_by_min_top_bottom_analysis", "mode",
                      "time_loop", "fps_loop", "returned"}

----------------------------------------------------------------------------
(* Claims about full-length recordings                                     *)

\* The one-minute trial of a fish that stays at (50, 50)
EndToEnd ==
    /\ args.mode = "time" /\ args.trial = 1
    /\ NFrames = 600
    /\ \A k \in 1..NFrames : args.df[k] = <<50, 50>>
    /\ args.tank_coordinates = ExampleTank

\* C11 (as stated): 600 frames at (50, 50) in the tank top = 100, bottom = 0,
\* left = 0, right = 100, time mode with length 1, give a single bucket with
\* bottom-half = 100, bottom-third = 100, left-half = 100, freezing = 100 for
\* any tolerance >= 0, and distance-travelled = 0.
C11_EndToEndBottom ==
    EndToEnd =>
        /\ pc # "raised"
        /\ pc = "returned" =>
             /\ Len(df_out) = 1
             /\ df_out[1].values["bottom 1/2"] = RInt(100)
             /\ df_out[1].values["bottom 1/3"] = RInt(100)
             /\ df_out[1].values["left 1/2"] = RInt(100)
             /\ (RGe(args.freeze_tolerance, RInt(0)) =>
                    df_out[1].values["freezing"] = RInt(100))
             /\ df_out[1].values["distance travelled"] = RInt(0)

\* C11 (amended): the same run gives a single bucket of 600 frames with
\* top-half = 100 and middle-third = 100 (y = 50 is on the midpoint, which
\* belongs to the upper half, and below the two-thirds line), bottom-half =
\* bottom-third = top-third = 0, left-half = 100, right-half = 0, freezing =
\* 100 for a tolerance > 0 and 0 for tolerance 0, distance-travelled = 0.
C11_EndToEndTop ==
    EndToEnd =>
        /\ pc # "raised"
        /\ pc = "returned" =>
             /\ Len(df_out) = 1
             /\ scanned[1] = 0..599
             /\ df_out[1].values["top 1/2"] = RInt(100)
             /\ df_out[1].values["middle 1/3"] = RInt(100)
             /\ df_out[1].values["bottom 1/2"] = RInt(0)
             /\ df_out[1].values["bottom 1/3"] = RInt(0)
             /\ df_out[1].values["top 1/3"] = RInt(0)
             /\ df_out[1].values["left 1/2"] = RInt(100)
             /\ df_out[1].values["right 1/2"] = RInt(0)
             /\ df_out[1].values["freezing"] =
                  (IF RLt(RInt(0), args.freeze_tolerance) THEN RInt(100) ELSE RInt(0))
             /\ df_out[1].values["distance travelled"] = RInt(0)

\* The run has returned, with the default freezing bin and tolerance
C11_Witness ==
    /\ EndToEnd
    /\ pc = "returned"
    /\ args.freeze_bin = Rat(1, 2) /\ args.freeze_tolerance = RInt(2)
    /\ ~args.use_real_dist
    /\ frames_per_min = 600 /\ frames_per_bin = 5
    /\ Cardinality(scanned[1]) = 600
    /\ df_out[1].values["top 1/2"] = RInt(100)
    /\ df_out[1].values["freezing"] = RInt(100)

\* The label of the last column of the returned table
LastLabel == df_out[Len(df_out)].label

\* C12 (as stated): at frame rate 30 the 2750-frame recording gives 91
\* whole-minute buckets and one trailing bucket labelled 91 + (2/3) * 0.6,
\* that is 91.4.
C12_NinetyOneBuckets ==
    (args.mode = "fps" /\ args.trial = RInt(30) /\ NFrames = 2750
       /\ pc = "returned") =>
        /\ Len(df_out) = 91 + 1
        /\ LastLabel = Rat(914, 10)

\* C12 (amended): at frame rate 30 (1800 frames per minute) the 2750-frame
\* recording gives 1 whole-minute bucket and one trailing bucket labelled
\* 1 + (950/1800) * 0.6 = 79/60; the 91 whole-minute buckets and the label
\* 91.4 are what it gives at 30 frames per minute (frame rate 1/2).
C12_OneBucket ==
    (args.mode = "fps" /\ NFrames = 2750 /\ pc = "returned") =>
        /\ args.trial = RInt(30) =>
              /\ frames_per_min = RInt(1800)
              /\ Len(df_out) = 1 + 1
              /\ df_out[1].label = RInt(1)
              /\ LastLabel = Rat(79, 60)
        /\ args.trial = Rat(1, 2) =>
              /\ frames_per_min = RInt(30)
              /\ Len(df_out) = 91 + 1
              /\ \A m \in 1..91 : df_out[m].label = RInt(m)
              /\ LastLabel = Rat(914, 10)

\* The recording at frame rate 30 has been aggregated into two buckets
C12_Witness ==
    /\ pc = "returned"
    /\ args.mode = "fps" /\ args.trial = RInt(30) /\ NFrames = 2750
    /\ Len(df_out) = 2
    /\ Cardinality(scanned[1]) = 1800
    /\ LastLabel = Rat(79, 60)

----------------------------------------------------------------------------
(* Claims about distance_travelled                                         *)

\* (sum |dx|)^2 + (sum |dy|)^2 over the samples f..f+b of the trajectory
WindowRadicand(df, f, b) ==
    LET sx == SumOver([k \in f..(f + b - 1) |-> Abs(X(df, k + 1) - X(df, k))],
                      f..(f + b - 1))
        sy == SumOver([k \in f..(f + b - 1) |-> Abs(Y(df, k + 1) - Y(df, k))],
                      f..(f + b - 1))
    IN  sx * sx + sy * sy

\* C13 (as stated): for a trajectory of n frames, distance_travelled(f, b) is
\* sqrt((sum |dx|)^2 + (sum |dy|)^2) over the samples f..f+b whenever
\* f + b + 1 <= n, and is forced to 0 when f + b + 1 > n; with b = 1 and
\* f = n - 2 it is the length of the step between the last two frames.
\* (ret is the radicand, so the equalities are between squares.)
C13_WindowInside ==
    pc = "distance_travelled" =>
        LET n == Len(args.df)
            f == args.frame
            b == args.bin_size
        IN  /\ f + b + 1 <= n => ret = WindowRadicand(args.df, f, b)
            /\ f + b + 1 > n => ret = 0
            /\ (b = 1 /\ f = n - 2) =>
                  ret = (X(args.df, f + 1) - X(args.df, f)) * (X(args.df, f + 1) - X(args.df, f))
                      + (Y(args.df, f + 1) - Y(args.df, f)) * (Y(args.df, f + 1) - Y(args.df, f))

\* What the code does: the window is computed only when the sample after it,
\* f + b + 1, exists (f + b + 1 <= n - 1); otherwise the result is 0.
C13_WindowNeedsNextSample ==
    pc = "distance_travelled" =>
        LET n == Len(args.df)
            f == args.frame
            b == args.bin_size
        IN  ret = (IF f + b + 1 <= n - 1 THEN WindowRadicand(args.df, f, b) ELSE 0)

----------------------------------------------------------------------------
(* Claims about the batch                                                  *)

\* Wide format with the default settings of __main__, and a valid mode
Defaults ==
    /\ ~cfg.long_format
    /\ cfg.noisy = TRUE
    /\ ConfigurationValid

\* The output holds, in list order, a block and a blank row for each of the
\* first k trials
BlocksWritten(k) ==
    /\ Len(output_file.rows) = 2 * k
    /\ \A i \in 1..k :
          /\ output_file.rows[2 * i - 1].kind = "block"
          /\ output_file.rows[2 * i - 1].trial = i
          /\ output_file.rows[2 * i].kind = "blank"
          /\ output_file.rows[2 * i].trial = i

\* While trial fileIdx + 1 is loaded or aggregated, exactly the blocks of the
\* trials before it are in the output
TrialsInOrder ==
    pc \in {"files", "min_by_min_top_bottom_analysis", "mode", "time_loop",
            "fps_loop", "returned"} => BlocksWritten(fileIdx)

BatchDone ==
    /\ pc = "done"
    /\ fileIdx = Len(files)
    /\ BlocksWritten(Len(files))
    /\ ~output_file.open

\* C14 (as stated): with the default settings (long_format off, noisy on) a
\* batch of N trials appends N blocks, each followed by one blank row, in
\* list order; trial i+1 is not started before the block and blank row of
\* trial i are written; every trial is eventually processed and the output
\* file is closed at the end.  Every loop of analyze_file is bounded, so a
\* run ends, at "done" or at "raised": that every trial is eventually
\* processed and the file closed says that it ends at "done" with all N
\* blocks written and the file closed, and not at "raised".  (A run that an
\* empty bucket ends in a division by zero is C9's case and is let pass.)
C14_BatchWriteSequence ==
    Defaults =>
        /\ TrialsInOrder
        /\ pc = "done" => BatchDone
        /\ pc = "raised" => error = "ZeroDivisionError"

\* With noisy off the print is skipped and, under SpecBatchLive, the batch
\* runs to its end as stated.
C14_QuietBatchCompletes ==
    (~cfg.long_format /\ cfg.noisy = FALSE /\ ConfigurationValid
       /\ pc = "analyze_file")
          ~> (BatchDone \/ error = "ZeroDivisionError")

\* What the code does: with the default settings the run ends in a
\* NameError at the print that follows the first trial's block and blank
\* row; no second trial is started and the file is never closed.
C14_StopsAtFirstPrint ==
    Defaults =>
        /\ TrialsInOrder
        /\ fileIdx = 0
        /\ Len(output_file.rows) <= 2
        /\ pc # "done"
        /\ Len(output_file.rows) = 2 =>
              /\ pc = "raised" /\ error = "NameError"
              /\ BlocksWritten(1)
              /\ output_file.open

====
